---- MODULE Spec2Model ----
(***************************************************************************)
(* Model of the Streamlit analysis pages under src/pages.  Every page is a *)
(* script that Streamlit re-runs on each interaction: it obtains the       *)
(* record set from the cached get_dataframe, applies the sidebar filters,  *)
(* groups and aggregates, and either reports "No data found to display."   *)
(* or draws charts and offers export tables.  One action models one whole  *)
(* run of one page's script.                                               *)
(***************************************************************************)
EXTENDS Integers, Sequences, FiniteSets, TLC

VARIABLES page, warehouse, schema, cache, queries, sel, result

vars == <<page, warehouse, schema, cache, queries, sel, result>>

(***************************************************************************)
(* Bounds of the model.                                                    *)
(***************************************************************************)
\* the largest number of rows the warehouse table holds
MaxRows == 2

(***************************************************************************)
(* Values.  NULL is a null string cell (None / NaN).  A timestamp is       *)
(* <<year, month, day, hour>>, NaT is the null timestamp and INVALID is a  *)
(* non-null date cell that pd.to_datetime(errors='coerce') cannot parse    *)
(* (a date outside the range pandas can hold, for one).                    *)
(* A calendar date (what st.date_input returns) is <<year, month, day>>.   *)
(* A nullable number is <<>> (null) or <<n>>.                              *)
(***************************************************************************)
NULL == "NULL"
NaT == <<>>
INVALID == <<0>>
NaN == <<>>

RECURSIVE LexLE(_, _, _)
\* a <= b in lexicographic order, given that they agree before position i
LexLE(a, b, i) ==
    IF i > Len(a) THEN TRUE
    ELSE IF i > Len(b) THEN FALSE
    ELSE IF a[i] < b[i] THEN TRUE
    ELSE IF a[i] > b[i] THEN FALSE
    ELSE LexLE(a, b, i + 1)

\* lexicographic order on sequences of integers (Python's str and tuple order)
SeqLE(a, b) == LexLE(a, b, 1)

SeqLT(a, b) == SeqLE(a, b) /\ a # b

\* pd.Timestamp(d) for a datetime.date d: midnight of that day
Timestamp(d) == <<d[1], d[2], d[3], 0>>

\* Timestamp.date(): the calendar date of a timestamp
DateOf(t) == <<t[1], t[2], t[3]>>

\* Series >= / <= against a Timestamp: a comparison with NaT is False
TsGE(t, lo) == t # NaT /\ SeqLE(lo, t)
TsLE(t, hi) == t # NaT /\ SeqLE(t, hi)

IsLeap(y) == (y % 4 = 0 /\ y % 100 # 0) \/ y % 400 = 0

DaysInMonth(y, m) ==
    IF m = 2 THEN (IF IsLeap(y) THEN 28 + 1 ELSE 28)
    ELSE IF m \in {4, 6, 9, 11} THEN 30 ELSE 31

\* t - pd.DateOffset(months=1): previous calendar month, day clamped to its length
MinusOneMonth(t) ==
    LET y == IF t[2] = 1 THEN t[1] - 1 ELSE t[1]
        m == IF t[2] = 1 THEN 12 ELSE t[2] - 1
        dim == DaysInMonth(y, m)
        d == IF t[3] > dim THEN dim ELSE t[3]
    IN <<y, m, d, t[4]>>

\* days since 1970-01-01 of a civil date (proleptic Gregorian)
DaysFromCivil(y0, m, d) ==
    LET y == IF m <= 2 THEN y0 - 1 ELSE y0
        era == y \div 400
        yoe == y - era * 400
        mp == (m + 9) % 12
        doy == (153 * mp + 2) \div 5 + d - 1
        doe == yoe * 365 + yoe \div 4 - yoe \div 100 + doy
    IN era * 146097 + doe - 719468

day_order == <<"Monday", "Tuesday", "Wednesday", "Thursday", "Friday", "Saturday", "Sunday">>

\* Series.dt.day_name(): NaT gives NaN
DayName(t) ==
    IF t = NaT THEN NULL
    ELSE day_order[((DaysFromCivil(t[1], t[2], t[3]) + 3) % 7) + 1]

\* get_season with a winter of January and February only
get_season_without_december(t) ==
    IF t = NaT THEN NULL
    ELSE IF t[2] \in {1, 2} THEN "Winter"
    ELSE IF t[2] \in {3, 4, 5} THEN "Spring"
    ELSE IF t[2] \in {6, 7, 8} THEN "Summer"
    ELSE IF t[2] \in {9, 10, 11} THEN "Fall"
    ELSE NULL

\* get_season(date): NaT.month is nan, no branch matches and None is returned
get_season(t) ==
    IF t = NaT THEN NULL
    ELSE IF t[2] \in {12, 1, 2} THEN "Winter"
    ELSE IF t[2] \in {3, 4, 5} THEN "Spring"
    ELSE IF t[2] \in {6, 7, 8} THEN "Summer"
    ELSE IF t[2] \in {9, 10, 11} THEN "Fall"
    ELSE NULL

\* df['Event Date'].dt.year.fillna(0).astype(int)
YearOf(t) == IF t = NaT THEN 0 ELSE t[1]

\* df['Year'].astype(str) + ' ' + df['Season']: NaN when Season is None
YearSeasonOf(t) == IF get_season(t) = NULL THEN NaN ELSE <<YearOf(t), get_season(t)>>

\* df['Event Date'].dt.to_period('M').astype(str): 'YYYY-MM', or 'NaT' (here <<>>)
YearMonthOf(t) == IF t = NaT THEN <<>> ELSE <<t[1], t[2]>>

\* pd.to_datetime(col, errors='coerce') on one cell
to_datetime(c) == IF c \in {NaT, INVALID} THEN NaT ELSE c

(***************************************************************************)
(* Strings.  Python orders strings by their characters, so every string    *)
(* the model uses is given by its character codes and compared with SeqLE. *)
(***************************************************************************)
\* the characters of the string values that occur in the modelled data
Chars(s) ==
    CASE s = "Fall" -> <<70, 97, 108, 108>>
      [] s = "Spring" -> <<83, 112, 114, 105, 110, 103>>
      [] s = "Summer" -> <<83, 117, 109, 109, 101, 114>>
      [] s = "Winter" -> <<87, 105, 110, 116, 101, 114>>
      [] s = "NaT" -> <<78, 97, 84>>
      [] s = "Unknown" -> <<85, 110, 107, 110, 111, 119, 110>>
      [] s = "V1" -> <<86, 49>>
      [] s = "V2" -> <<86, 50>>
      [] s = "VA" -> <<86, 65>>
      [] s = "VB" -> <<86, 66>>
      [] s = "VC" -> <<86, 67>>
      [] s = "VD" -> <<86, 68>>
      [] s = "VE" -> <<86, 69>>
      [] s = "VF" -> <<86, 70>>
      [] s = "VG" -> <<86, 71>>
      [] s = "VH" -> <<86, 72>>
      [] s = "VI" -> <<86, 73>>
      [] s = "VJ" -> <<86, 74>>
      [] s = "VK" -> <<86, 75>>
      [] s = "Pool" -> <<80, 111, 111, 108>>
      [] s = "Bar" -> <<66, 97, 114>>
      [] s = "card" -> <<99, 97, 114, 100>>
      [] s = "cash" -> <<99, 97, 115, 104>>
      [] s = "E1" -> <<69, 49>>
      [] s = "E2" -> <<69, 50>>
      [] s = "X" -> <<88>>
      [] s = "Ale" -> <<65, 108, 101>>
      [] s = "yes" -> <<121, 101, 115>>
      [] s = "no" -> <<110, 111>>
      [] s = "All" -> <<65, 108, 108>>
      [] s = "Monday" -> <<77, 111, 110, 100, 97, 121>>
      [] s = "Tuesday" -> <<84, 117, 101, 115, 100, 97, 121>>
      [] s = "Wednesday" -> <<87, 101, 100, 110, 101, 115, 100, 97, 121>>
      [] s = "Thursday" -> <<84, 104, 117, 114, 115, 100, 97, 121>>
      [] s = "Friday" -> <<70, 114, 105, 100, 97, 121>>
      [] s = "Saturday" -> <<83, 97, 116, 117, 114, 100, 97, 121>>
      [] s = "Sunday" -> <<83, 117, 110, 100, 97, 121>>

RECURSIVE Digits(_)
\* str(n) for a natural number n
Digits(n) == IF n < 10 THEN <<48 + n>> ELSE Digits(n \div 10) \o <<48 + (n % 10)>>

\* the text of a YearSeason label: "{Year} {Season}"
YearSeasonStr(ys) == Digits(ys[1]) \o <<32>> \o Chars(ys[2])

\* the text of a YearMonth label: "YYYY-MM", or "NaT"
YearMonthStr(ym) ==
    IF ym = <<>> THEN Chars("NaT")
    ELSE Digits(ym[1]) \o <<45>> \o (IF ym[2] < 10 THEN <<48>> ELSE <<>>) \o Digits(ym[2])

RECURSIVE IndexOf(_, _)
\* list.index(x), 1-based; x is in the list
IndexOf(list, x) == IF Head(list) = x THEN 1 ELSE 1 + IndexOf(Tail(list), x)

\* the sort key of a cell when the day names are plain strings
CellKeyByName(col, v) ==
    IF col = "YearSeason" THEN YearSeasonStr(v)
    ELSE IF col = "YearMonth" THEN YearMonthStr(v)
    ELSE IF col = "Date" THEN v
    ELSE Chars(v)

\* the sort key pandas uses for one cell of a grouping or sorting column
CellKey(col, v) ==
    IF col = "YearSeason" THEN YearSeasonStr(v)
    ELSE IF col = "YearMonth" THEN YearMonthStr(v)
    ELSE IF col = "Date" THEN v
    ELSE IF col = "DayOfWeek" THEN <<IndexOf(day_order, v)>>
    ELSE Chars(v)

(***************************************************************************)
(* Warehouse rows.  The table MGM_TRANSACTIONS is outside the repository;  *)
(* the model draws its rows from a small universe built around one base    *)
(* row by varying the categorical cells, the two dates and the measures.   *)
(***************************************************************************)
BaseRow ==
    [VP_VENUENAME |-> "V1", VT_NAME |-> "Pool", TB_GLOBALTYPE |-> "card",
     EF_NAME |-> "E1", TI_ITEMNAME |-> "X",
     TB_QTY |-> 5, STOCK |-> 10, TB_SUBTOTALAGREE |-> 20, TB_GUESTS |-> 2,
     TB_CARTID |-> "c1",
     TI_CALDATE |-> <<2023, 10, 31, 0>>, TB_TRANSDATE |-> <<2023, 10, 31, 13>>,
     ADDTIER_YIELD_ALLITEMS |-> <<4>>, TIER_TIER_ALLITEMS |-> NaN]

\* another venue, venue type, pay type and item, and no event name
CatRows ==
    { [BaseRow EXCEPT !.VP_VENUENAME = "V2", !.VT_NAME = "Bar", !.TB_GLOBALTYPE = "cash",
                      !.EF_NAME = NULL, !.TI_ITEMNAME = "Ale", !.TB_CARTID = "c2"] }

\* an event date that cannot be parsed, and a null event date
DateRows == { [BaseRow EXCEPT !.TI_CALDATE = d] : d \in {INVALID, NaT} }

\* a spring event with no stock, other measures and no yield
MeasureRows ==
    { [BaseRow EXCEPT !.TI_CALDATE = <<2023, 3, 1, 0>>, !.TB_QTY = 3, !.STOCK = 0,
                      !.TB_SUBTOTALAGREE = 7, !.TB_GUESTS = 1,
                      !.ADDTIER_YIELD_ALLITEMS = NaN] }

\* the same venue, item and cart two weeks later, with a stock that does not
\* divide the quantity; and another event of the base row's day, venue and item
DayRows ==
    { [BaseRow EXCEPT !.TI_CALDATE = <<2023, 11, 15, 0>>, !.TB_QTY = 1, !.STOCK = 3,
                      !.TB_SUBTOTALAGREE = 4, !.TB_GUESTS = 1],
      [BaseRow EXCEPT !.EF_NAME = "E2", !.TB_QTY = 2, !.STOCK = 12,
                      !.TB_SUBTOTALAGREE = 9, !.TB_GUESTS = 3, !.TB_CARTID = "c3"] }

Rows == {BaseRow} \cup CatRows \cup DateRows \cup MeasureRows \cup DayRows

RECURSIVE SeqsUpTo(_, _)
\* all sequences over S of length at most n
SeqsUpTo(S, n) ==
    IF n = 0 THEN {<<>>}
    ELSE LET shorter == SeqsUpTo(S, n - 1)
         IN shorter \cup { Append(t, x) : t \in {u \in shorter : Len(u) = n - 1}, x \in S }

Tables == SeqsUpTo(Rows, MaxRows)

\* rows for the cleaning steps of get_dataframe: no category at all, the same
\* row with every category already 'Unknown', and no transaction date
NullRows ==
    { [BaseRow EXCEPT !.VP_VENUENAME = c, !.VT_NAME = c, !.TB_GLOBALTYPE = c,
                      !.EF_NAME = c, !.TI_ITEMNAME = c] : c \in {NULL, "Unknown"} }
    \cup { [BaseRow EXCEPT !.TB_TRANSDATE = NaT] }

\* one record in the middle of every month of 2023, and one record for every
\* pair of values (null, negative, zero, positive) of the two yield indicators
DerivedRows ==
    { [BaseRow EXCEPT !.TI_CALDATE = <<2023, m, 15, 0>>] : m \in 1..12 }
    \cup { [BaseRow EXCEPT !.ADDTIER_YIELD_ALLITEMS = a, !.TIER_TIER_ALLITEMS = t] :
              a \in {NaN, <<-1>>, <<0>>, <<4>>}, t \in {NaN, <<-1>>, <<0>>, <<4>>} }

\* the tables whose rows have null cells in every column get_dataframe cleans
NullTables == SeqsUpTo({BaseRow} \cup DateRows \cup NullRows, MaxRows)

(***************************************************************************)
(* DataFrame helpers.  A frame is the sequence of its rows.                *)
(***************************************************************************)
Range(s) == { s[i] : i \in 1..Len(s) }

RECURSIVE drop_duplicates(_)
\* DataFrame.drop_duplicates(): the first occurrence of every row is kept
drop_duplicates(df) ==
    IF df = <<>> THEN <<>>
    ELSE LET init == drop_duplicates(SubSeq(df, 1, Len(df) - 1))
             last == df[Len(df)]
         IN IF last \in Range(init) THEN init ELSE Append(init, last)

\* a cell left as it is, null or not
KeepNull(c) == c

\* Series.fillna('Unknown') on one cell
fillna(c) == IF c = NULL THEN "Unknown" ELSE c

\* the cells of a renamed row under the warehouse's column names
Source(r) ==
    [VP_VENUENAME |-> r.VenueName, VT_NAME |-> r.VenueType, TB_GLOBALTYPE |-> r.PayType,
     EF_NAME |-> r.EventName, TI_ITEMNAME |-> r.ItemName,
     TB_QTY |-> r.Quantity, STOCK |-> r.Stock, TB_SUBTOTALAGREE |-> r.Value,
     TB_GUESTS |-> r.Guests, TB_CARTID |-> r.CartID,
     TI_CALDATE |-> r.EventDate, TB_TRANSDATE |-> r.TransactionDate,
     ADDTIER_YIELD_ALLITEMS |-> r.ADDTIER_YIELD_ALLITEMS,
     TIER_TIER_ALLITEMS |-> r.TIER_TIER_ALLITEMS]

\* the renaming of the warehouse columns, after the null categories are filled
Rename(r) ==
    [VenueName |-> fillna(r.VP_VENUENAME), VenueType |-> fillna(r.VT_NAME),
     PayType |-> fillna(r.TB_GLOBALTYPE), EventName |-> fillna(r.EF_NAME),
     ItemName |-> fillna(r.TI_ITEMNAME),
     Quantity |-> r.TB_QTY, Stock |-> r.STOCK, Value |-> r.TB_SUBTOTALAGREE,
     Guests |-> r.TB_GUESTS, CartID |-> r.TB_CARTID,
     EventDate |-> r.TI_CALDATE, TransactionDate |-> r.TB_TRANSDATE,
     ADDTIER_YIELD_ALLITEMS |-> r.ADDTIER_YIELD_ALLITEMS,
     TIER_TIER_ALLITEMS |-> r.TIER_TIER_ALLITEMS]

\* the body of get_dataframe on the fetched rows
get_dataframe(rows) ==
    LET deduped == drop_duplicates(rows)
        dated == SelectSeq(deduped, LAMBDA r : r.TI_CALDATE # NaT /\ r.TB_TRANSDATE # NaT)
    IN [i \in 1..Len(dated) |-> Rename(dated[i])]

\* the first lines of every page: both date columns through pd.to_datetime
CoerceDates(df) ==
    [i \in 1..Len(df) |->
        [df[i] EXCEPT !.EventDate = to_datetime(@), !.TransactionDate = to_datetime(@)]]

(***************************************************************************)
(* Columns.  Derived columns are functions of the event date, so a row     *)
(* keeps its stored cells and Col computes the cell of any column.         *)
(***************************************************************************)
\* a yielding flag that looks at the first indicator only
YieldingByAddTier(r) ==
    IF r.ADDTIER_YIELD_ALLITEMS # NaN /\ r.ADDTIER_YIELD_ALLITEMS[1] > 0
    THEN "yes" ELSE "no"

\* df['yielding']: 'yes' if either yield indicator is non-null and positive
Yielding(r) ==
    IF (r.ADDTIER_YIELD_ALLITEMS # NaN /\ r.ADDTIER_YIELD_ALLITEMS[1] > 0)
       \/ (r.TIER_TIER_ALLITEMS # NaN /\ r.TIER_TIER_ALLITEMS[1] > 0)
    THEN "yes" ELSE "no"

\* the columns a page's frame has (there is no "Global Type" among them)
Columns ==
    {"Venue Name", "Venue Type", "Pay Type", "Event Name", "Item Name", "yielding",
     "Date", "YearMonth", "YearSeason", "DayOfWeek"}

\* df[c] for one row
Col(r, c) ==
    CASE c = "Venue Name" -> r.VenueName
      [] c = "Venue Type" -> r.VenueType
      [] c = "Pay Type" -> r.PayType
      [] c = "Event Name" -> r.EventName
      [] c = "Item Name" -> r.ItemName
      [] c = "yielding" -> Yielding(r)
      [] c = "Date" -> r.EventDate
      [] c = "YearMonth" -> YearMonthOf(r.EventDate)
      [] c = "YearSeason" -> YearSeasonOf(r.EventDate)
      [] c = "DayOfWeek" -> DayName(r.EventDate)

\* whether df[c] is null (NaN, None or NaT) in row r; 'NaT' in YearMonth is a string
IsNull(r, c) ==
    CASE c = "Date" -> r.EventDate = NaT
      [] c = "YearMonth" -> FALSE
      [] c = "YearSeason" -> YearSeasonOf(r.EventDate) = NaN
      [] OTHER -> Col(r, c) = NULL

RECURSIVE Unique(_, _)
\* df[c].unique(): the distinct cells in order of first appearance
Unique(df, c) ==
    IF df = <<>> THEN <<>>
    ELSE LET init == Unique(SubSeq(df, 1, Len(df) - 1), c)
             v == Col(df[Len(df)], c)
         IN IF v \in Range(init) THEN init ELSE Append(init, v)

\* Series.isin(values) as a row mask
IsIn(df, c, values) == SelectSeq(df, LAMBDA r : Col(r, c) \in values)

\* df[df[c] == value]
Equals(df, c, value) == SelectSeq(df, LAMBDA r : Col(r, c) = value)

\* df[(df[field] >= lo) & (df[field] <= hi)]
Between(df, field, lo, hi) ==
    SelectSeq(df, LAMBDA r :
        IF field = "Event Date" THEN TsGE(r.EventDate, lo) /\ TsLE(r.EventDate, hi)
        ELSE TsGE(r.TransactionDate, lo) /\ TsLE(r.TransactionDate, hi))

RECURSIVE InsertSorted(_, _)
\* insertion of r after the rows whose event date is not later (NaT sorts last)
InsertSorted(sorted, r) ==
    IF sorted = <<>> THEN <<r>>
    ELSE LET h == Head(sorted)
         IN IF h.EventDate # NaT /\ (r.EventDate = NaT \/ SeqLE(h.EventDate, r.EventDate))
            THEN <<h>> \o InsertSorted(Tail(sorted), r)
            ELSE IF h.EventDate = NaT /\ r.EventDate = NaT
                 THEN <<h>> \o InsertSorted(Tail(sorted), r)
                 ELSE <<r>> \o sorted

RECURSIVE SortByEventDate(_)
\* df.sort_values(by='Event Date')
SortByEventDate(df) ==
    IF df = <<>> THEN <<>>
    ELSE InsertSorted(SortByEventDate(SubSeq(df, 1, Len(df) - 1)), df[Len(df)])

(***************************************************************************)
(* Grouping and aggregation: df.groupby(cols).agg({...}).reset_index().    *)
(***************************************************************************)
\* the tuple of grouping cells of a row
KeyOf(r, cols) == [i \in 1..Len(cols) |-> Col(r, cols[i])]

\* groupby drops a row when one of its grouping cells is null (dropna=True)
HasNullKey(r, cols) == \E i \in 1..Len(cols) : IsNull(r, cols[i])

\* the levels of one grouper: every category of a categorical column,
\* the observed non-null values of any other column
Levels(df, c, categories) ==
    IF c \in DOMAIN categories THEN categories[c]
    ELSE { Col(df[i], c) : i \in {j \in 1..Len(df) : ~IsNull(df[j], c)} }

RECURSIVE KeyProduct(_, _, _)
\* the cartesian product of the groupers' levels
KeyProduct(df, cols, categories) ==
    IF cols = <<>> THEN {<<>>}
    ELSE { <<v>> \o k : v \in Levels(df, Head(cols), categories),
                        k \in KeyProduct(df, Tail(cols), categories) }

\* the group keys of the result: with a categorical grouper (observed=False)
\* every combination of levels, otherwise the combinations that occur
GroupKeys(df, cols, categories) ==
    IF \E i \in 1..Len(cols) : cols[i] \in DOMAIN categories
    THEN KeyProduct(df, cols, categories)
    ELSE { KeyOf(df[i], cols) : i \in {j \in 1..Len(df) : ~HasNullKey(df[j], cols)} }

\* the sort keys of the cells of a key tuple, column by column
SortKey(cols, k) == [i \in 1..Len(cols) |-> CellKey(cols[i], k[i])]

RECURSIVE SortKeyLE(_, _, _)
\* a <= b for two tuples of sort keys that agree before position i
SortKeyLE(a, b, i) ==
    IF i > Len(a) THEN TRUE
    ELSE IF a[i] = b[i] THEN SortKeyLE(a, b, i + 1)
    ELSE SeqLE(a[i], b[i])

\* the order groupby(sort=True) and sort_values give to key tuples
KeyLE(cols, a, b) == SortKeyLE(SortKey(cols, a), SortKey(cols, b), 1)

RECURSIVE InsertKey(_, _)
\* insertion of the pair x = <<sort key, key>> into the ascending sequence sorted
InsertKey(sorted, x) ==
    IF sorted = <<>> THEN <<x>>
    ELSE LET n == Len(sorted)
         IN IF SortKeyLE(sorted[n][1], x[1], 1) THEN Append(sorted, x)
            ELSE Append(InsertKey(SubSeq(sorted, 1, n - 1), x), sorted[n])

RECURSIVE SortPairs(_)
\* the pairs <<sort key, key>> in ascending order of sort key
SortPairs(pairs) ==
    IF pairs = {} THEN <<>>
    ELSE LET x == CHOOSE y \in pairs : TRUE
         IN InsertKey(SortPairs(pairs \ {x}), x)

\* the second components of a sequence of pairs
Seconds(pairs) == [i \in 1..Len(pairs) |-> pairs[i][2]]

\* the keys in ascending order
SortKeys(keys, cols) == Seconds(SortPairs({ <<SortKey(cols, k), k>> : k \in keys }))

RECURSIVE SumOf(_, _)
\* Series.sum() of a measure
SumOf(df, measure) ==
    IF df = <<>> THEN 0
    ELSE (CASE measure = "Value" -> Head(df).Value
            [] measure = "Guests" -> Head(df).Guests
            [] measure = "Quantity" -> Head(df).Quantity) + SumOf(Tail(df), measure)

\* Series.mean(): sum over count, kept as the pair; NaN for an empty group
MeanOf(df, measure) == IF df = <<>> THEN NaN ELSE <<SumOf(df, measure), Len(df)>>

\* the stock of the first row of the group in place of the largest
FirstStock(df) == df[1].Stock

RECURSIVE MaxStock(_)
\* Series.max() of Stock over a non-empty group
MaxStock(df) ==
    IF Len(df) = 1 THEN df[1].Stock
    ELSE LET m == MaxStock(Tail(df))
         IN IF Head(df).Stock > m THEN Head(df).Stock ELSE m

\* the number of records of the group, whether or not they share a cart
CountRecords(df) == Len(df)

\* pd.Series.nunique of Cart ID
NUnique(df) == Cardinality({ df[i].CartID : i \in 1..Len(df) })

\* round(x, 2) of the fraction num/den, den > 0, in hundredths (ties to even)
Round2(num, den) ==
    LET scaled == num * 100
        q == scaled \div den
        rem2 == 2 * (scaled - q * den)
    IN IF rem2 < den THEN q
       ELSE IF rem2 > den THEN q + 1
       ELSE IF q % 2 = 0 THEN q ELSE q + 1

\* (Quantity / Stock) * 100 rounded to 2 places; float division by zero gives
\* inf, -inf or nan
PercentageSale(quantity, stock) ==
    IF stock = 0
    THEN [kind |-> IF quantity > 0 THEN "inf" ELSE IF quantity < 0 THEN "-inf" ELSE "nan",
          hundredths |-> 0]
    ELSE [kind |-> "num", hundredths |-> Round2(quantity * 100, stock)]

\* Members matching the group key without its time bucket
MembersOfAnyBucket(df, cols, k) ==
    SelectSeq(df, LAMBDA r : ~HasNullKey(r, cols) /\ Tail(KeyOf(r, cols)) = Tail(k))

\* the rows of one group
Members(df, cols, k) == SelectSeq(df, LAMBDA r : ~HasNullKey(r, cols) /\ KeyOf(r, cols) = k)

\* the sums of one group, its size and its number of distinct carts
Sums(members, k) ==
    [key |-> k, size |-> Len(members),
     Value_sum |-> SumOf(members, "Value"),
     Guests_sum |-> SumOf(members, "Guests"),
     Quantity_sum |-> SumOf(members, "Quantity"),
     TRANSACTION_COUNT |-> NUnique(members)]

\* one row of df_grouped: the sums always, the means when show_average is set,
\* max(Stock) and the percentage sale on the inventory page
Aggregate(members, k, show_average, inventory) ==
    IF inventory
    THEN Sums(members, k) @@
         [Stock |-> MaxStock(members),
          PERCENTAGE_SALE |-> PercentageSale(SumOf(members, "Quantity"), MaxStock(members))]
    ELSE IF show_average
    THEN Sums(members, k) @@
         [Value_avg |-> MeanOf(members, "Value"),
          Guests_avg |-> MeanOf(members, "Guests"),
          Quantity_avg |-> MeanOf(members, "Quantity")]
    ELSE Sums(members, k)

\* the aggregation of the group with key k
SummaryRow(df, cols, k, show_average, inventory) ==
    Aggregate(Members(df, cols, k), k, show_average, inventory)

\* the group keys in ascending order and one row per key
Summaries(df, cols, keys, show_average, inventory) ==
    [i \in 1..Len(keys) |-> SummaryRow(df, cols, keys[i], show_average, inventory)]

\* df.groupby(cols).agg(...).reset_index(): one row per group key, keys ascending
GroupBy(df, cols, categories, show_average, inventory) ==
    Summaries(df, cols, SortKeys(GroupKeys(df, cols, categories), cols),
              show_average, inventory)

RECURSIVE InsertRow(_, _, _)
\* insertion of row after the rows whose leading key cells are not greater
\* (the sort is stable)
InsertRow(sorted, row, by) ==
    IF sorted = <<>> THEN <<row>>
    ELSE LET n == Len(sorted)
             m == Len(by)
         IN IF KeyLE(by, SubSeq(sorted[n].key, 1, m), SubSeq(row.key, 1, m))
            THEN Append(sorted, row)
            ELSE Append(InsertRow(SubSeq(sorted, 1, n - 1), row, by), sorted[n])

RECURSIVE sort_values(_, _)
\* df_grouped.sort_values(by=...): by the leading grouping columns, as pandas
\* orders their cells
sort_values(rows, by) ==
    IF rows = <<>> THEN <<>>
    ELSE InsertRow(sort_values(SubSeq(rows, 1, Len(rows) - 1), by), rows[Len(rows)], by)

(***************************************************************************)
(* Widgets.  Streamlit re-runs the script when the user changes a widget.  *)
(* A widget keeps its value from the previous run when it was drawn there  *)
(* with the same label and options; otherwise it shows its default.        *)
(***************************************************************************)
\* the calendar days offered to the date pickers
Days == {<<2023, 10, 31>>}

\* st.date_input(..., []): nothing, a start date only, or a range start <= end
DateInputs ==
    {<<>>} \cup { <<d>> : d \in Days } \cup { r \in Days \X Days : SeqLE(r[1], r[2]) }

\* the values pd.Timestamp.now() takes
Nows == {<<2023, 3, 31, 9>>, <<2023, 11, 30, 9>>}

Pages ==
    {"Daily Inventory", "Transaction Analysis", "Transaction Type", "Pool Yield",
     "Seasonal Analysis", "Seasonal Grouping", "DayOfWeek"}

\* the pages whose category widgets are st.selectbox (one value), not st.multiselect
SelectboxPages == {"Daily Inventory", "DayOfWeek"}

\* the widget values before the first run of a page
NoSel ==
    [filter_type |-> "Event Date", date_filter |-> <<>>, show_average |-> FALSE,
     filter_option |-> "None"]

\* the outcome before the first run of a page: nothing drawn
NoResult == [status |-> "none", rendered |-> {}, options |-> <<>>]

\* the choices of the "Select Filter" radio
FilterOptions ==
    IF page = "Seasonal Analysis" THEN {"None", "Venue Name", "Venue Type", "Global Type"}
    ELSE {"None", "Venue Name", "Venue Type", "Pay Type"}

\* the values the user can give widget w, as the previous run drew it
Domain(w) ==
    CASE w = "rerun" -> {TRUE}
      [] w = "filter_type" -> {"Event Date", "Transaction Date"}
      [] w = "date_filter" -> DateInputs
      [] w = "show_average" -> BOOLEAN
      [] w = "filter_option" -> FilterOptions
      [] OTHER -> IF page \in SelectboxPages THEN Range(result.options[w])
                  ELSE SUBSET Range(result.options[w])

\* the value of a widget with a fixed label and no options list
HeldFixed(name, default, w, v) ==
    IF name \in result.rendered THEN (IF w = name THEN v ELSE sel[name]) ELSE default

\* the value of a multiselect or selectbox drawn with the options opts
Held(name, opts, default, w, v) ==
    IF name \in result.rendered /\ result.options[name] = opts
    THEN (IF w = name THEN v ELSE sel[name])
    ELSE default

\* the date range widget: its label follows the date filter type, so it is a
\* new widget when the type changes
HeldDate(filter_type, w, v) ==
    IF "date_filter" \in result.rendered /\ sel.filter_type = filter_type
    THEN (IF w = "date_filter" THEN v ELSE sel.date_filter)
    ELSE <<>>

(***************************************************************************)
(* The cached fetch.  st.cache_data keeps whatever get_dataframe returned  *)
(* for the query text, the None of a failed fetch included.                *)
(***************************************************************************)
\* the rows the page's query selects: the Pool Yield query has VT_NAME = 'Pool'
Query(p, table) ==
    IF p = "Pool Yield" THEN SelectSeq(table, LAMBDA r : r.VT_NAME = "Pool") ELSE table

\* the columns of the queried table
SourceColumns == DOMAIN BaseRow

\* the columns the body of get_dataframe indexes: the subset of dropna and the
\* five columns it fills (rename ignores the names the frame does not have)
NormalizerColumns ==
    {"TI_CALDATE", "TB_TRANSDATE",
     "EF_NAME", "TI_ITEMNAME", "TB_GLOBALTYPE", "VT_NAME", "VP_VENUENAME"}

\* a cache that keeps nothing: every call of get_dataframe is a miss
MissAlways == TRUE

\* a cache miss of st.cache_data: no value is kept for the query text
Miss == cache = <<>>

\* get_dataframe(query) behind st.cache_data: the cached value on a hit, else
\* the value computed now (None when session.sql raises, or when the body
\* raises KeyError for a column the fetched rows do not have)
Fetched(fetch_ok) ==
    IF ~Miss THEN cache[1]
    ELSE IF fetch_ok /\ NormalizerColumns \subseteq schema
    THEN [ok |-> TRUE, df |-> get_dataframe(Query(page, warehouse))]
    ELSE [ok |-> FALSE, df |-> <<>>]

\* "Failed to retrieve data."
Failed == [status |-> "failed", rendered |-> {}, options |-> <<>>]

\* the date range filter the pages other than Daily Inventory apply
DateFilter(df, filter_type, date_filter) ==
    IF Len(date_filter) = 2
    THEN Between(df, filter_type, Timestamp(date_filter[1]), Timestamp(date_filter[2]))
    ELSE df

\* the terminal state of a page that grouped its frame
Terminal(df_grouped) == IF df_grouped = <<>> THEN "no_data" ELSE "tables"

(***************************************************************************)
(* A run of a page script is a sequence of steps over the script's local   *)
(* names.  The record s holds them: df is the frame the page loaded, cur   *)
(* the frame the sidebar filters have narrowed so far, sel the widget      *)
(* values, options the option lists drawn, rendered the widgets drawn and  *)
(* cols the grouping columns of the selections made.                       *)
(***************************************************************************)
\* the script's names when the sidebar starts, for the loaded frame df
Locals(df) ==
    [df |-> df, cur |-> df, sel |-> <<>>, options |-> <<>>, rendered |-> {}, cols |-> <<>>,
     error |-> "none", dated |-> df, now |-> <<>>]

\* the record s after widget name was drawn with value chosen
Drawn(s, name, chosen) ==
    [s EXCEPT !.sel = @ @@ (name :> chosen), !.rendered = @ \cup {name}]

\* the "Select Date Filter Type" radio and the date range input under it
DateWidgets(s, w, v) ==
    LET filter_type == HeldFixed("filter_type", "Event Date", w, v)
    IN Drawn(Drawn(s, "filter_type", filter_type), "date_filter", HeldDate(filter_type, w, v))

\* st.sidebar.checkbox("Show Average")
ShowAverage(s, w, v) == Drawn(s, "show_average", HeldFixed("show_average", FALSE, w, v))

\* the "Show Average" checkbox, which is not reached after an exception
ShowAverageUnlessRaised(s, w, v) == IF s.error # "none" THEN s ELSE ShowAverage(s, w, v)

\* Multiselect filtering by the selection even when it is empty
MultiselectAlwaysFiltering(s, name, col, w, v) ==
    LET opts == Unique(s.cur, col)
        chosen == Held(name, opts, {}, w, v)
    IN [Drawn(s, name, chosen) EXCEPT
          !.options = @ @@ (name :> opts),
          !.cur = IsIn(@, col, chosen),
          !.cols = IF chosen # {} THEN Append(@, col) ELSE @]

\* a multiselect over the values of column col in the frame narrowed so far,
\* and the frame narrowed to the selection when it is not empty
Multiselect(s, name, col, w, v) ==
    LET opts == Unique(s.cur, col)
        chosen == Held(name, opts, {}, w, v)
    IN [Drawn(s, name, chosen) EXCEPT
          !.options = @ @@ (name :> opts),
          !.cur = IF chosen # {} THEN IsIn(@, col, chosen) ELSE @,
          !.cols = IF chosen # {} THEN Append(@, col) ELSE @]

\* a selectbox over "All" and the values of column col in the frame narrowed
\* so far, and the frame narrowed to the selection when it is not "All"
Selectbox(s, name, col, w, v) ==
    LET opts == <<"All">> \o Unique(s.cur, col)
        chosen == Held(name, opts, "All", w, v)
    IN [Drawn(s, name, chosen) EXCEPT
          !.options = @ @@ (name :> opts),
          !.cur = IF chosen # "All" THEN Equals(@, col, chosen) ELSE @,
          !.cols = IF chosen # "All" THEN Append(@, col) ELSE @]

\* the "Select Filter" radio and the multiselect of accepted values under it;
\* df[filter_option] raises KeyError for a column the frame does not have
FilterOption(s, w, v) ==
    LET filter_option == HeldFixed("filter_option", "None", w, v)
        missing == filter_option \notin Columns \cup {"None"}
        drawn == filter_option # "None" /\ ~missing
        opts == IF drawn THEN Unique(s.df, filter_option) ELSE <<>>
        filter_values == IF drawn /\ sel.filter_option = filter_option
                         THEN Held("filter_values", opts, {}, w, v) ELSE {}
    IN [Drawn(s, "filter_option", filter_option) EXCEPT
          !.sel = @ @@ [filter_values |-> filter_values],
          !.rendered = IF drawn THEN @ \cup {"filter_values"} ELSE @,
          !.options = [filter_values |-> opts],
          !.cur = IF drawn THEN IsIn(@, filter_option, filter_values) ELSE @,
          !.cols = IF filter_option = "None" THEN @ ELSE Append(@, filter_option),
          !.error = IF missing THEN "KeyError" ELSE @]

\* what a page shows after an uncaught exception: the widgets drawn before it
Raised(s) ==
    [sel |-> s.sel,
     result |-> [status |-> "exception", error |-> s.error, rendered |-> s.rendered,
                 options |-> s.options, df |-> s.df]]

\* what a page shows after grouping: date_in and date_out are the frames before
\* and after the date filter, filtered the frame that was grouped
Shown(s, status, date_in, date_out, filtered, group_by_cols, df_grouped) ==
    [sel |-> s.sel,
     result |-> [status |-> status, rendered |-> s.rendered, options |-> s.options,
                 df |-> s.df, date_in |-> date_in, date_out |-> date_out,
                 filtered |-> filtered, group_by_cols |-> group_by_cols,
                 grouped |-> df_grouped, now |-> s.now]]

\* the date range filter on the narrowed frame, with the type and range of s
Dated(s, df) == DateFilter(df, s.sel.filter_type, s.sel.date_filter)

\* df[df[col].isin(selected)] when something is selected, else df
Keep(df, col, selected) == IF selected # {} THEN IsIn(df, col, selected) ELSE df

\* the categories of the categorical grouping column of a page, if it has one
Categories(filtered, categorical) ==
    IF categorical = "YearMonth"
    THEN [c \in {"YearMonth"} |-> Range(Unique(filtered, "YearMonth"))]
    ELSE IF categorical = "DayOfWeek" THEN [c \in {"DayOfWeek"} |-> Range(day_order)]
    ELSE <<>>

\* the end of a page that reached its groupby: "No data found to display." or
\* the charts and tables of df_grouped
Displayed(s, date_in, date_out, filtered, group_by_cols, df_grouped) ==
    Shown(s, Terminal(df_grouped), date_in, date_out, filtered, group_by_cols, df_grouped)

\* the warehouse columns behind the columns a page's agg({...}) names
AggColumns(p) ==
    {"TB_SUBTOTALAGREE", "TB_GUESTS", "TB_QTY"}
    \cup (IF p = "Seasonal Analysis" THEN {} ELSE {"TB_CARTID"})
    \cup (IF p = "Daily Inventory" THEN {"STOCK"} ELSE {})

\* agg({...}) raises KeyError when a column it names is not in the frame
AggRaises == ~(AggColumns(page) \subseteq schema)

\* the script's names after a KeyError
KeyError(s) == [s EXCEPT !.error = "KeyError"]

\* groupby(group_by_cols).agg(...) of the filtered frame, sorted by the columns
\* sort_by, and what the page shows of it
Summarised(s, date_in, date_out, filtered, group_by_cols, categorical, inventory, sort_by) ==
    IF AggRaises THEN Raised(KeyError(s))
    ELSE Displayed(s, date_in, date_out, filtered, group_by_cols,
                   sort_values(GroupBy(filtered, group_by_cols,
                                       Categories(filtered, categorical),
                                       ~inventory /\ s.sel.show_average, inventory),
                               sort_by))

(***************************************************************************)
(* The charts and the export tables of a page that found data.  A table is *)
(* the list of the columns of df_grouped it shows, a figure the list of    *)
(* the columns it traces for every series, and a series the key of one     *)
(* iteration of the charting loop with the rows of df_grouped it plots.    *)
(***************************************************************************)
\* the columns of one metric with the mean whether or not averages are shown
MetricColumnsWithMean(keys, sum, avg, show_average) == keys \o <<sum, avg>>

\* the columns of one metric: its sum, and its mean when averages are shown
MetricColumns(keys, sum, avg, show_average) ==
    keys \o <<sum>> \o (IF show_average THEN <<avg>> ELSE <<>>)

\* the value, guest and quantity selections of df_grouped
SumTables(keys, show_average) ==
    <<MetricColumns(keys, "Value_sum", "Value_avg", show_average),
      MetricColumns(keys, "Guests_sum", "Guests_avg", show_average),
      MetricColumns(keys, "Quantity_sum", "Quantity_avg", show_average)>>

\* the four selections of df_grouped: value, guests, quantity, transaction counts
ExportTables(keys, show_average) ==
    Append(SumTables(keys, show_average), keys \o <<"TRANSACTION_COUNT">>)

\* the multiselect's list of selected values, in the order of its options
Selected(out, name) == SelectSeq(out.result.options[name], LAMBDA x : x \in out.sel[name])

\* the cell of column col in a row of df_grouped with the key columns cols
Cell(row, cols, col) == row.key[IndexOf(cols, col)]

\* df_grouped[(df_grouped[c1] == v1) & ...] for the pairs <<c, v>> of key
Matching(grouped, cols, key) ==
    SelectSeq(grouped, LAMBDA row :
        \A i \in 1..Len(key) : Cell(row, cols, key[i][1]) = key[i][2])

\* a loop over values nested in the loops that produced combos
Cross(combos, col, values) ==
    [k \in 1..(Len(combos) * Len(values)) |->
        Append(combos[((k - 1) \div Len(values)) + 1],
               <<col, values[((k - 1) % Len(values)) + 1]>>)]

\* one series for every key of keys: the rows of df_grouped that match it
SeriesOf(out, keys) ==
    [i \in 1..Len(keys) |->
        [key |-> keys[i],
         points |-> Matching(out.result.grouped, out.result.group_by_cols, keys[i])]]

RECURSIVE UniqueKeys(_, _)
\* df_grouped[col].unique() for the i-th grouping column
UniqueKeys(rows, i) ==
    IF rows = <<>> THEN <<>>
    ELSE LET init == UniqueKeys(SubSeq(rows, 1, Len(rows) - 1), i)
             k == rows[Len(rows)].key[i]
         IN IF k \in Range(init) THEN init ELSE Append(init, k)

\* the result of a page with its figures, series and export tables
Charted(out, figures, series, tables) ==
    [sel |-> out.sel,
     result |-> out.result @@ [figures |-> figures, series |-> series, tables |-> tables]]

\* the loop over the selected values of the filter column, or the one series
\* of the whole df_grouped when there is no filter
FilterSeries(out) ==
    IF out.sel.filter_option # "None" /\ out.sel.filter_values # {}
    THEN SeriesOf(out, Cross(<< <<>> >>, out.sel.filter_option, Selected(out, "filter_values")))
    ELSE SeriesOf(out, << <<>> >>)

\* the loops over the selected items, events or venues
SelectionLoops(out) ==
    IF out.sel.item_name # {}
    THEN IF out.sel.event_name # {}
         THEN Cross(Cross(<< <<>> >>, "Event Name", Selected(out, "event_name")),
                    "Item Name", Selected(out, "item_name"))
         ELSE Cross(<< <<>> >>, "Item Name", Selected(out, "item_name"))
    ELSE IF out.sel.event_name # {}
    THEN Cross(<< <<>> >>, "Event Name", Selected(out, "event_name"))
    ELSE Cross(<< <<>> >>, "Venue Name", Selected(out, "venue_name"))

(***************************************************************************)
(* Daily Inventory Analysis.                                               *)
(***************************************************************************)
\* InventoryDated without the else-branch: no filter unless a range is chosen
InventoryDatedWithoutDefault(df, date_filter, now) ==
    IF Len(date_filter) = 2
    THEN Between(df, "Event Date", Timestamp(date_filter[1]), Timestamp(date_filter[2]))
    ELSE df

\* the frame after the event-date filter: the chosen range, or the last month
InventoryDated(df, date_filter, now) ==
    IF Len(date_filter) = 2
    THEN Between(df, "Event Date", Timestamp(date_filter[1]), Timestamp(date_filter[2]))
    ELSE Between(df, "Event Date", MinusOneMonth(now), now)

\* df.dropna(subset=['Event Date', 'Transaction Date']) after the coercion
DropInvalidDates(df) ==
    SelectSeq(df, LAMBDA r : r.EventDate # NaT /\ r.TransactionDate # NaT)

\* the "Select Event Date Range" input and the event-date filter
InventoryDateInput(s, w, v, now) ==
    LET date_filter == HeldFixed("date_filter", <<>>, w, v)
    IN [Drawn(s, "date_filter", date_filter) EXCEPT
          !.now = now,
          !.cur = InventoryDated(@, date_filter, now),
          !.dated = InventoryDated(@, date_filter, now)]

\* the "Select Venue Name" selectbox, which has no "All", and its filter
VenueSelectbox(s, w, v) ==
    LET opts == Unique(s.cur, "Venue Name")
        chosen == Held("venue_name", opts, IF opts = <<>> THEN NULL ELSE opts[1], w, v)
    IN [Drawn(s, "venue_name", chosen) EXCEPT
          !.options = @ @@ [venue_name |-> opts],
          !.cur = Equals(@, "Venue Name", chosen)]

\* the selections of df_grouped this page shows, in the order it shows them
InventoryTables(keys) ==
    <<keys \o <<"Quantity", "Stock">>, keys \o <<"PERCENTAGE_SALE">>,
      keys \o <<"TRANSACTION_COUNT">>, keys \o <<"Value">>, keys \o <<"Guests">>>>

\* one series for every iteration of `for itemname in ti_itemname_filter`:
\* ti_itemname_filter is the string the selectbox returned, so itemname is
\* each of its characters, and the points are the rows of df_grouped whose
\* item name equals that character (and whose event is the selected one)
InventorySeries(out) ==
    [i \in 1..Len(Chars(out.sel.item_name)) |->
        [key |-> (IF out.sel.event_name # "All"
                  THEN << <<"Event Name", out.sel.event_name>> >> ELSE <<>>)
                 \o << <<"Item Name", <<Chars(out.sel.item_name)[i]>> >> >>,
         points |->
             SelectSeq(out.result.grouped, LAMBDA row :
                 /\ Chars(Cell(row, out.result.group_by_cols, "Item Name"))
                        = <<Chars(out.sel.item_name)[i]>>
                 /\ out.sel.event_name # "All" =>
                        Cell(row, out.result.group_by_cols, "Event Name")
                            = out.sel.event_name)]]

\* the five charts and the five tables of a page that found data
InventoryDrawn(out) ==
    IF out.result.status # "tables" THEN out
    ELSE Charted(out, InventoryTables(<<>>), InventorySeries(out),
                 InventoryTables(out.result.group_by_cols))

\* the sort by event date, the grouping columns and the grouped table
InventorySummarised(s) ==
    InventoryDrawn(
        Summarised(s, s.df, s.dated, SortByEventDate(s.cur),
                   IF s.sel.event_name # "All"
                   THEN <<"Date", "Venue Name", "Event Name", "Item Name">>
                   ELSE <<"Date", "Venue Name", "Item Name">>,
                   "none", TRUE, <<>>))

\* one run of the script on the frame df0, after the user set widget w to v
DailyInventory(df0, w, v, now) ==
    InventorySummarised(
        Selectbox(
            Selectbox(
                VenueSelectbox(
                    InventoryDateInput(Locals(DropInvalidDates(CoerceDates(df0))), w, v, now),
                    w, v),
                "event_name", "Event Name", w, v),
            "item_name", "Item Name", w, v))

(***************************************************************************)
(* Transaction Analysis.                                                   *)
(***************************************************************************)
\* px.colors.qualitative.Plotly
Plotly ==
    <<"#636EFA", "#EF553B", "#00CC96", "#AB63FA", "#FFA15A",
      "#19D3F3", "#FF6692", "#B6E880", "#FF97FF", "#FECB52">>

\* {value: color for value, color in zip(filter_values, Plotly)}: zip stops
\* at the end of the shorter list
ColorMap(filter_values) ==
    [value \in {filter_values[i] : i \in 1..Len(filter_values) \cap 1..Len(Plotly)} |->
        Plotly[IndexOf(filter_values, value)]]

\* the four charts and the four tables of a page that found data; the
\* charting loop reads color_map[value] for every selected value, a KeyError
\* for a value that is not in color_map
TransactionAnalysisDrawn(out) ==
    IF out.result.status # "tables" THEN out
    ELSE IF /\ out.sel.filter_option # "None" /\ out.sel.filter_values # {}
            /\ \E value \in out.sel.filter_values :
                   value \notin DOMAIN ColorMap(Selected(out, "filter_values"))
    THEN [sel |-> out.sel,
          result |-> [status |-> "exception", error |-> "KeyError",
                      rendered |-> out.result.rendered, options |-> out.result.options,
                      df |-> out.result.df,
                      color_map |-> ColorMap(Selected(out, "filter_values"))]]
    ELSE [sel |-> out.sel,
          result |-> Charted(out, ExportTables(<<>>, out.sel.show_average), FilterSeries(out),
                             ExportTables(out.result.group_by_cols,
                                          out.sel.show_average)).result
                     @@ [color_map |-> ColorMap(Selected(out, "filter_values"))]]

\* the date filter, the sort by event date and the grouped table
TransactionAnalysisSummarised(s) ==
    TransactionAnalysisDrawn(
        Summarised(s, s.cur, Dated(s, s.cur), SortByEventDate(Dated(s, s.cur)),
                   <<"YearMonth">> \o s.cols, "YearMonth", FALSE, <<>>))

\* one run of the script on the frame df0, after the user set widget w to v
TransactionAnalysis(df0, w, v) ==
    TransactionAnalysisSummarised(
        ShowAverage(FilterOption(DateWidgets(Locals(CoerceDates(df0)), w, v), w, v), w, v))

(***************************************************************************)
(* Seasonal Analysis.                                                      *)
(***************************************************************************)
\* a row of df_grouped without the transaction count, which this page does not compute
WithoutCount(row) == [f \in DOMAIN row \ {"TRANSACTION_COUNT"} |-> row[f]]

\* df_grouped without the transaction counts
WithoutCounts(grouped) == [i \in 1..Len(grouped) |-> WithoutCount(grouped[i])]

\* the grouped table of this page: Value, Guests and Quantity only
SeasonalGrouped(df, group_by_cols, show_average) ==
    WithoutCounts(GroupBy(df, group_by_cols, <<>>, show_average, FALSE))

\* the three charts and the three tables of a page that found data
SeasonalAnalysisDrawn(out) ==
    IF out.result.status # "tables" THEN out
    ELSE Charted(out, SumTables(<<>>, out.sel.show_average), FilterSeries(out),
                 SumTables(out.result.group_by_cols, out.sel.show_average))

\* the date filter and the grouped table, unless the filter column was missing
SeasonalAnalysisSummarised(s) ==
    IF s.error # "none" THEN Raised(s)
    ELSE IF AggRaises THEN Raised(KeyError(s))
    ELSE SeasonalAnalysisDrawn(
             Displayed(s, s.cur, Dated(s, s.cur), Dated(s, s.cur), <<"YearSeason">> \o s.cols,
                       SeasonalGrouped(Dated(s, s.cur), <<"YearSeason">> \o s.cols,
                                       s.sel.show_average)))

\* one run of the script on the frame df0, after the user set widget w to v
SeasonalAnalysis(df0, w, v) ==
    SeasonalAnalysisSummarised(
        ShowAverageUnlessRaised(
            FilterOption(DateWidgets(Locals(CoerceDates(df0)), w, v), w, v), w, v))

(***************************************************************************)
(* Transaction Type Analysis.  The cascade names three intermediate frames *)
(* (bound holds the ones an if-branch has assigned) and takes the options  *)
(* of the next multiselect from the whole frame in every else-branch.      *)
(***************************************************************************)
\* the script's names when the sidebar starts
TypeLocals(df) ==
    Locals(df) @@ [bound |-> {}, df_pay_type_filtered |-> <<>>,
                   df_venue_name_filtered |-> <<>>, df_item_name_filtered |-> <<>>]

\* "Select Venue Type", and df_pay_type_filtered when a venue type is selected
SelectVenueType(s, w, v) ==
    LET opts == Unique(s.df, "Venue Type")
        chosen == Held("venue_type", opts, {}, w, v)
    IN [Drawn(s, "venue_type", chosen) EXCEPT
          !.options = @ @@ [venue_type |-> opts],
          !.cols = IF chosen # {} THEN Append(@, "Venue Type") ELSE @,
          !.bound = IF chosen # {} THEN @ \cup {"df_pay_type_filtered"} ELSE @,
          !.df_pay_type_filtered = IF chosen # {} THEN IsIn(s.df, "Venue Type", chosen) ELSE @]

\* "Select Pay Type", and df_venue_name_filtered when a pay type is selected:
\* derived from df_pay_type_filtered, a NameError when that name is not bound
SelectPayType(s, w, v) ==
    LET opts == IF s.sel.venue_type # {} THEN Unique(s.df_pay_type_filtered, "Pay Type")
                ELSE Unique(s.df, "Pay Type")
        chosen == Held("pay_type", opts, {}, w, v)
        unbound == chosen # {} /\ "df_pay_type_filtered" \notin s.bound
        assigned == chosen # {} /\ ~unbound
    IN [Drawn(s, "pay_type", chosen) EXCEPT
          !.options = @ @@ [pay_type |-> opts],
          !.cols = IF chosen # {} THEN Append(@, "Pay Type") ELSE @,
          !.error = IF unbound THEN "NameError" ELSE @,
          !.bound = IF assigned THEN @ \cup {"df_venue_name_filtered"} ELSE @,
          !.df_venue_name_filtered =
              IF assigned THEN IsIn(s.df_pay_type_filtered, "Pay Type", chosen) ELSE @]

\* "Select Venue Name", and df_item_name_filtered when a venue name is selected:
\* derived from df_venue_name_filtered, a NameError when that name is not bound
SelectVenueName(s, w, v) ==
    LET opts == IF s.sel.pay_type # {} THEN Unique(s.df_venue_name_filtered, "Venue Name")
                ELSE Unique(s.df, "Venue Name")
        chosen == Held("venue_name", opts, {}, w, v)
        unbound == chosen # {} /\ "df_venue_name_filtered" \notin s.bound
        assigned == chosen # {} /\ ~unbound
    IN IF s.error # "none" THEN s
       ELSE [Drawn(s, "venue_name", chosen) EXCEPT
               !.options = @ @@ [venue_name |-> opts],
               !.cols = IF chosen # {} THEN Append(@, "Venue Name") ELSE @,
               !.error = IF unbound THEN "NameError" ELSE @,
               !.bound = IF assigned THEN @ \cup {"df_item_name_filtered"} ELSE @,
               !.df_item_name_filtered =
                   IF assigned THEN IsIn(s.df_venue_name_filtered, "Venue Name", chosen)
                   ELSE @]

\* "Select Item Name"
SelectItemName(s, w, v) ==
    LET opts == IF s.sel.venue_name # {} THEN Unique(s.df_item_name_filtered, "Item Name")
                ELSE Unique(s.df, "Item Name")
        chosen == Held("item_name", opts, {}, w, v)
    IN IF s.error # "none" THEN s
       ELSE [Drawn(s, "item_name", chosen) EXCEPT
               !.options = @ @@ [item_name |-> opts],
               !.cols = IF chosen # {} THEN Append(@, "Item Name") ELSE @]

\* the date filter and then the four selections applied to the whole frame
TypeFiltered(s) ==
    Keep(Keep(Keep(Keep(Dated(s, s.df), "Venue Type", s.sel.venue_type),
                   "Pay Type", s.sel.pay_type),
              "Venue Name", s.sel.venue_name),
         "Item Name", s.sel.item_name)

\* the four charts and the four tables of a page that found data, with one
\* series for every key of df_grouped.groupby(group_by_cols): the distinct
\* values of the selected columns in the rows, sorted
TransactionTypeDrawn(out) ==
    IF out.result.status # "tables" THEN out
    ELSE LET cols == Tail(out.result.group_by_cols)
             names == SortKeys({ Tail(out.result.grouped[i].key) :
                                    i \in 1..Len(out.result.grouped) }, cols)
         IN Charted(out, ExportTables(<<>>, out.sel.show_average),
                    SeriesOf(out, [n \in 1..Len(names) |->
                                     [i \in 1..Len(cols) |-> <<cols[i], names[n][i]>>]]),
                    ExportTables(out.result.group_by_cols, out.sel.show_average))

\* the grouped table, or "No grouping filters selected." when group_by_cols is empty
TransactionTypeSummarised(s) ==
    IF s.error # "none" THEN Raised(s)
    ELSE IF s.cols = <<>>
    THEN Shown(s, "no_grouping", s.df, Dated(s, s.df), TypeFiltered(s), <<>>, <<>>)
    ELSE TransactionTypeDrawn(
             Summarised(s, s.df, Dated(s, s.df), TypeFiltered(s), <<"YearMonth">> \o s.cols,
                        "none", FALSE, <<"YearMonth">>))

\* one run of the script on the frame df0, after the user set widget w to v
TransactionType(df0, w, v) ==
    TransactionTypeSummarised(
        ShowAverageUnlessRaised(
            SelectItemName(
                SelectVenueName(
                    SelectPayType(
                        SelectVenueType(
                            DateWidgets(TypeLocals(CoerceDates(df0)), w, v), w, v),
                        w, v),
                    w, v),
                w, v),
            w, v))

(***************************************************************************)
(* Transaction Pool Yield Analysis.                                        *)
(***************************************************************************)
\* the four charts and the four tables of a page that found data: the loops
\* over the selections, and inside them the loop over
\* df_grouped['yielding'].unique() when a yielding value is selected
PoolYieldDrawn(out) ==
    IF out.result.status # "tables" THEN out
    ELSE Charted(out, ExportTables(<<>>, out.sel.show_average),
                 SeriesOf(out,
                          IF out.sel.yielding # {}
                          THEN Cross(SelectionLoops(out), "yielding",
                                     UniqueKeys(out.result.grouped,
                                                IndexOf(out.result.group_by_cols, "yielding")))
                          ELSE SelectionLoops(out)),
                 ExportTables(out.result.group_by_cols, out.sel.show_average))

\* the date filter on the narrowed frame and the grouped table
PoolYieldSummarised(s) ==
    PoolYieldDrawn(
        Summarised(s, s.cur, Dated(s, s.cur), Dated(s, s.cur), <<"YearMonth">> \o s.cols,
                   "none", FALSE, <<"YearMonth">>))

\* the lambda of df['yielding'] raises KeyError on a row when it indexes a
\* column the row does not have: ADDTIER_YIELD_ALLITEMS on every row, and
\* TIER_TIER_ALLITEMS on the rows where `or` reaches its second operand
YieldingRaises(df) ==
    \E i \in 1..Len(df) :
        \/ "ADDTIER_YIELD_ALLITEMS" \notin schema
        \/ /\ "TIER_TIER_ALLITEMS" \notin schema
           /\ ~(df[i].ADDTIER_YIELD_ALLITEMS # NaN /\ df[i].ADDTIER_YIELD_ALLITEMS[1] > 0)

\* the sidebar and the grouped table
PoolYieldSidebar(s, w, v) ==
    PoolYieldSummarised(
        ShowAverage(
            Multiselect(
                Multiselect(
                    Multiselect(
                        Multiselect(DateWidgets(s, w, v),
                                    "venue_name", "Venue Name", w, v),
                        "event_name", "Event Name", w, v),
                    "item_name", "Item Name", w, v),
                "yielding", "yielding", w, v),
            w, v))

\* one run of the script on the frame df0, after the user set widget w to v
PoolYield(df0, w, v) ==
    IF YieldingRaises(df0) THEN Raised(KeyError(Locals(CoerceDates(df0))))
    ELSE PoolYieldSidebar(Locals(CoerceDates(df0)), w, v)

(***************************************************************************)
(* Seasonal Grouping Analysis.                                             *)
(***************************************************************************)
\* the four charts and the four tables of a page that found data
SeasonalGroupingDrawn(out) ==
    IF out.result.status # "tables" THEN out
    ELSE Charted(out, ExportTables(<<>>, out.sel.show_average),
                 SeriesOf(out, SelectionLoops(out)),
                 ExportTables(out.result.group_by_cols, out.sel.show_average))

\* the date filter on the narrowed frame and the grouped table
SeasonalGroupingSummarised(s) ==
    SeasonalGroupingDrawn(
        Summarised(s, s.cur, Dated(s, s.cur), Dated(s, s.cur), <<"YearSeason">> \o s.cols,
                   "none", FALSE, <<"YearSeason">>))

\* one run of the script on the frame df0, after the user set widget w to v
SeasonalGrouping(df0, w, v) ==
    SeasonalGroupingSummarised(
        ShowAverage(
            Multiselect(
                Multiselect(
                    Multiselect(DateWidgets(Locals(CoerceDates(df0)), w, v),
                                "venue_name", "Venue Name", w, v),
                    "event_name", "Event Name", w, v),
                "item_name", "Item Name", w, v),
            w, v))

(***************************************************************************)
(* Seasonal Grouping Analysis with Day of the Week.                        *)
(***************************************************************************)
seasons_order == <<"Spring", "Summer", "Fall", "Winter">>

RECURSIVE InsertSeason(_, _)
\* insertion of a YearSeason label by (year, index of the season in seasons_order)
InsertSeason(sorted, ys) ==
    IF sorted = <<>> THEN <<ys>>
    ELSE IF SeqLE(<<Head(sorted)[1], IndexOf(seasons_order, Head(sorted)[2])>>,
                  <<ys[1], IndexOf(seasons_order, ys[2])>>)
         THEN <<Head(sorted)>> \o InsertSeason(Tail(sorted), ys)
         ELSE <<ys>> \o sorted

RECURSIVE SortedSeasons(_)
\* sorted(labels, key=lambda x: (int(x.split()[0]), seasons_order.index(x.split()[1])))
SortedSeasons(labels) ==
    IF labels = <<>> THEN <<>>
    ELSE InsertSeason(SortedSeasons(SubSeq(labels, 1, Len(labels) - 1)), labels[Len(labels)])

\* the seasons in the order the page draws their series
WithSortedSeasons(out) ==
    IF out.result.status = "exception" THEN out
    ELSE [sel |-> out.sel,
          result |-> out.result @@
                     [sorted_seasons |-> SortedSeasons(UniqueKeys(out.result.grouped, 1))]]

\* the four charts, with one series for every season, and the four tables
DayOfWeekDrawn(out) ==
    IF out.result.status # "tables" THEN out
    ELSE Charted(out, ExportTables(<<>>, out.sel.show_average),
                 SeriesOf(out, Cross(<< <<>> >>, "YearSeason", out.result.sorted_seasons)),
                 ExportTables(out.result.group_by_cols, out.sel.show_average))

\* the date filter on the narrowed frame and the grouped table
DayOfWeekSummarised(s) ==
    DayOfWeekDrawn(
        WithSortedSeasons(
            Summarised(s, s.cur, Dated(s, s.cur), Dated(s, s.cur),
                       <<"YearSeason", "DayOfWeek">> \o s.cols, "DayOfWeek", FALSE,
                       <<"YearSeason", "DayOfWeek">>)))

\* one run of the script on the frame df0, after the user set widget w to v
DayOfWeek(df0, w, v) ==
    DayOfWeekSummarised(
        ShowAverage(
            Selectbox(
                Selectbox(
                    Selectbox(DateWidgets(Locals(CoerceDates(df0)), w, v),
                              "venue_name", "Venue Name", w, v),
                    "event_name", "Event Name", w, v),
                "item_name", "Item Name", w, v),
            w, v))

(***************************************************************************)
(* The session.                                                            *)
(***************************************************************************)
\* get_dataframe is fetched once and cached: only the first run can fail
Fetches == IF Miss THEN BOOLEAN ELSE {TRUE}

\* what makes the script run again: a plain rerun, or one rendered widget
\* given a new value
Changes ==
    {<<"rerun", "rerun">>} \cup
    UNION {{<<w, v>> : v \in Domain(w) \ {sel[w]}} : w \in result.rendered}

\* one run of a page script: the cached fetch, then either the failure branch
\* or the page that the script draws
Run(got, out) ==
    /\ cache' = <<got>>
    /\ queries' = IF Miss THEN queries + 1 ELSE queries
    /\ IF got.ok
       THEN /\ sel' = out.sel
            /\ result' = out.result
       ELSE /\ sel' = NoSel
            /\ result' = Failed
    /\ UNCHANGED <<page, warehouse, schema>>

Init ==
    /\ page \in Pages
    /\ warehouse \in Tables
    /\ schema = SourceColumns
    /\ cache = <<>>
    /\ queries = 0
    /\ sel = NoSel
    /\ result = NoResult

RunDailyInventory ==
    /\ page = "Daily Inventory"
    /\ \E fetch_ok \in Fetches : \E c \in Changes : \E now \in Nows :
         Run(Fetched(fetch_ok),
             DailyInventory(Fetched(fetch_ok).df, c[1], c[2], now))

RunTransactionAnalysis ==
    /\ page = "Transaction Analysis"
    /\ \E fetch_ok \in Fetches : \E c \in Changes :
         Run(Fetched(fetch_ok), TransactionAnalysis(Fetched(fetch_ok).df, c[1], c[2]))

RunTransactionType ==
    /\ page = "Transaction Type"
    /\ \E fetch_ok \in Fetches : \E c \in Changes :
         Run(Fetched(fetch_ok), TransactionType(Fetched(fetch_ok).df, c[1], c[2]))

RunPoolYield ==
    /\ page = "Pool Yield"
    /\ \E fetch_ok \in Fetches : \E c \in Changes :
         Run(Fetched(fetch_ok), PoolYield(Fetched(fetch_ok).df, c[1], c[2]))

RunSeasonalAnalysis ==
    /\ page = "Seasonal Analysis"
    /\ \E fetch_ok \in Fetches : \E c \in Changes :
         Run(Fetched(fetch_ok), SeasonalAnalysis(Fetched(fetch_ok).df, c[1], c[2]))

RunSeasonalGrouping ==
    /\ page = "Seasonal Grouping"
    /\ \E fetch_ok \in Fetches : \E c \in Changes :
         Run(Fetched(fetch_ok), SeasonalGrouping(Fetched(fetch_ok).df, c[1], c[2]))

RunDayOfWeek ==
    /\ page = "DayOfWeek"
    /\ \E fetch_ok \in Fetches : \E c \in Changes :
         Run(Fetched(fetch_ok), DayOfWeek(Fetched(fetch_ok).df, c[1], c[2]))

Next ==
    \/ RunDailyInventory
    \/ RunTransactionAnalysis
    \/ RunTransactionType
    \/ RunPoolYield
    \/ RunSeasonalAnalysis
    \/ RunSeasonalGrouping
    \/ RunDayOfWeek

Spec == Init /\ [][Next]_vars

\* the pages over tables with null cells in every column get_dataframe cleans
NullInit ==
    /\ page \in Pages
    /\ warehouse \in NullTables
    /\ schema = SourceColumns
    /\ cache = <<>>
    /\ queries = 0
    /\ sel = NoSel
    /\ result = NoResult

NullSpec == NullInit /\ [][Next]_vars

\* the tables of the runs over a table that lacks one column
SchemaTables == SeqsUpTo({BaseRow} \cup MeasureRows, MaxRows)

\* the pages over a table that lacks one of its columns
SchemaInit ==
    /\ page \in Pages
    /\ warehouse \in SchemaTables
    /\ schema \in {SourceColumns \ {c} : c \in SourceColumns}
    /\ cache = <<>>
    /\ queries = 0
    /\ sel = NoSel
    /\ result = NoResult

SchemaSpec == SchemaInit /\ [][Next]_vars

\* the pages over a table with one record of any month and any yield
DerivedInit ==
    /\ page \in Pages
    /\ warehouse \in SeqsUpTo(DerivedRows, 1)
    /\ schema = SourceColumns
    /\ cache = <<>>
    /\ queries = 0
    /\ sel = NoSel
    /\ result = NoResult

DerivedSpec == DerivedInit /\ [][Next]_vars

\* the Transaction Analysis page over a table with one record of each of
\* eleven venues, one more than px.colors.qualitative.Plotly has colours
PaletteInit ==
    /\ page = "Transaction Analysis"
    /\ warehouse =
           LET venues == <<"VA", "VB", "VC", "VD", "VE", "VF", "VG", "VH", "VI", "VJ", "VK">>
           IN [i \in 1..Len(venues) |-> [BaseRow EXCEPT !.VP_VENUENAME = venues[i]]]
    /\ schema = SourceColumns
    /\ cache = <<>>
    /\ queries = 0
    /\ sel = NoSel
    /\ result = NoResult

\* a run of the Transaction Analysis script for a user who fills the
\* multiselect one value at a time, in the order of its options, and changes
\* the other widgets freely
SelectInTurn ==
    /\ page = "Transaction Analysis"
    /\ \E fetch_ok \in Fetches : \E c \in Changes :
         /\ c[1] = "filter_values" =>
                \E n \in 1..Len(result.options.filter_values) :
                    /\ c[2] = {result.options.filter_values[i] : i \in 1..n}
                    /\ Cardinality(sel.filter_values) = n - 1
         /\ Run(Fetched(fetch_ok), TransactionAnalysis(Fetched(fetch_ok).df, c[1], c[2]))

PaletteSpec == PaletteInit /\ [][SelectInTurn]_vars

(***************************************************************************)
(* Properties.                                                             *)
(***************************************************************************)
\* the pass reached its groupby and showed "No data found to display." or tables
Grouped == result.status \in {"no_data", "tables"}

RECURSIVE GroupTotal(_, _)
\* the sum of the per-group sums of a measure over the summary rows
GroupTotal(rows, measure) ==
    IF rows = <<>> THEN 0
    ELSE (CASE measure = "Value" -> Head(rows).Value_sum
            [] measure = "Guests" -> Head(rows).Guests_sum
            [] measure = "Quantity" -> Head(rows).Quantity_sum) + GroupTotal(Tail(rows), measure)

\* C1: for every grouping a page uses and each of Value, Guests and Quantity,
\* the per-group sums of the summary rows add up to the sum of the measure over
\* the filtered frame that was grouped: grouping loses no record and counts
\* none twice.
C1_RoundTripSums ==
    Grouped =>
        \A measure \in {"Value", "Guests", "Quantity"} :
            GroupTotal(result.grouped, measure) = SumOf(result.filtered, measure)

\* C2: in the inventory report every group whose max(Stock) is 0 has an
\* undefined percentage sale (NaN): never 0 and never infinity, whatever the
\* group's summed quantity is.
C2_UndefinedWithoutStock ==
    page = "Daily Inventory" /\ Grouped =>
        \A i \in 1..Len(result.grouped) :
            result.grouped[i].Stock = 0 => result.grouped[i].PERCENTAGE_SALE.kind = "nan"

\* the loaded frame narrowed by the first n selections of the hierarchical
\* filter page that are not empty
Narrowed(n) ==
    LET by_type == Keep(result.df, "Venue Type", sel.venue_type)
        by_pay == Keep(by_type, "Pay Type", sel.pay_type)
    IN IF n = 1 THEN by_type
       ELSE IF n = 2 THEN by_pay
       ELSE Keep(by_pay, "Venue Name", sel.venue_name)

\* C3: on the hierarchical filter page (venue type, pay type, venue name, item
\* name) the candidate values every later filter offers are those of the frame
\* narrowed by all earlier selections that are not empty, never those of the
\* whole frame.
C3_CascadingCandidates ==
    page = "Transaction Type" =>
        /\ "pay_type" \in result.rendered =>
              result.options.pay_type = Unique(Narrowed(1), "Pay Type")
        /\ "venue_name" \in result.rendered =>
              result.options.venue_name = Unique(Narrowed(2), "Venue Name")
        /\ "item_name" \in result.rendered =>
              result.options.item_name = Unique(Narrowed(3), "Item Name")

\* C4: a categorical filter whose set of accepted values is empty (a field
\* chosen for filtering with nothing selected) does not filter: the frame after
\* the filter is the frame before it.
C4_EmptySelectionKeepsAll ==
    /\ page \in {"Transaction Analysis", "Seasonal Analysis"} /\ Grouped
          /\ sel.filter_values = {}
          => result.date_in = result.df
    /\ page = "Pool Yield" /\ Grouped
          /\ sel.venue_name = {} /\ sel.event_name = {} /\ sel.item_name = {}
          /\ sel.yielding = {}
          => result.date_in = result.df
    /\ page = "Seasonal Grouping" /\ Grouped
          /\ sel.venue_name = {} /\ sel.event_name = {} /\ sel.item_name = {}
          => result.date_in = result.df
    /\ page = "Transaction Type" /\ result.status \in {"no_data", "tables", "no_grouping"}
          /\ sel.venue_type = {} /\ sel.pay_type = {} /\ sel.venue_name = {}
          /\ sel.item_name = {}
          => result.filtered = result.date_out

\* C5: over a record set that was fetched, every pass of every page ends in
\* one of two terminal states: export tables, or the no-data signal.
C5_TwoTerminalStates ==
    result.status \notin {"none", "failed"} => result.status \in {"tables", "no_data"}

\* a YearSeason bucket a is not after bucket b: by year, then Spring, Summer,
\* Fall, Winter
SeasonLE(a, b) ==
    SeqLE(<<a[1], IndexOf(seasons_order, a[2])>>, <<b[1], IndexOf(seasons_order, b[2])>>)

\* C6: summary rows ordered by YearSeason are in ascending year and, within a
\* year, in the order Spring, Summer, Fall, Winter, not in the lexicographic
\* order of the label.
C6_SeasonOrder ==
    page \in {"Seasonal Analysis", "Seasonal Grouping", "DayOfWeek"} /\ Grouped =>
        \A i \in 1..(Len(result.grouped) - 1) :
            SeasonLE(result.grouped[i].key[1], result.grouped[i + 1].key[1])

\* the rows of df whose date field has its calendar date in [start, end]
OnDays(df, field, start, end) ==
    SelectSeq(df, LAMBDA r :
        LET t == IF field = "Event Date" THEN r.EventDate ELSE r.TransactionDate
        IN t # NaT /\ SeqLE(start, DateOf(t)) /\ SeqLE(DateOf(t), end))

\* C7: with a complete date range [start, end] chosen for a date field, a
\* record is kept exactly when the calendar date of that field lies in
\* [start, end], both ends included: every record dated on the end day is kept.
C7_InclusiveDateRange ==
    /\ result.status \in {"no_data", "tables", "no_grouping"}
    /\ Len(sel.date_filter) = 2
    => result.date_out =
         OnDays(result.date_in, IF page = "Daily Inventory" THEN "Event Date" ELSE sel.filter_type,
                sel.date_filter[1], sel.date_filter[2])

\* the rows of df whose event date lies in [now - 1 month, now]
InLastMonth(df, now) ==
    SelectSeq(df, LAMBDA r :
        /\ r.EventDate # NaT
        /\ SeqLE(MinusOneMonth(now), r.EventDate)
        /\ SeqLE(r.EventDate, now))

\* C8: on the Daily Inventory page, whenever no complete date range is chosen
\* (nothing, or a start date only), the records kept are exactly those whose
\* event date lies in [now - 1 month, now].
C8_DefaultLastMonth ==
    page = "Daily Inventory" /\ Grouped /\ Len(sel.date_filter) # 2 =>
        result.date_out = InLastMonth(result.df, result.now)

\* C8 witness: only a start date is chosen, and the default range keeps one
\* record and drops another
C8_DefaultApplied ==
    /\ page = "Daily Inventory" /\ Grouped
    /\ Len(sel.date_filter) = 1
    /\ result.date_out # <<>>
    /\ Len(result.date_out) < Len(result.df)

\* the pass applied its filters: it ended with tables, with no data or, on
\* the hierarchical filter page, with nothing to group by
Passed == result.status \in {"no_data", "tables", "no_grouping"}

\* the user supplied no filter: no complete date range and no categorical
\* selection (the Daily Inventory venue selectbox always holds a venue)
NoFilter ==
    /\ Len(sel.date_filter) # 2
    /\ CASE page \in {"Transaction Analysis", "Seasonal Analysis"} ->
               sel.filter_option = "None"
         [] page = "Transaction Type" ->
               /\ sel.venue_type = {} /\ sel.pay_type = {}
               /\ sel.venue_name = {} /\ sel.item_name = {}
         [] page = "Pool Yield" ->
               /\ sel.venue_name = {} /\ sel.event_name = {}
               /\ sel.item_name = {} /\ sel.yielding = {}
         [] page = "Seasonal Grouping" ->
               sel.venue_name = {} /\ sel.event_name = {} /\ sel.item_name = {}
         [] page = "DayOfWeek" ->
               sel.venue_name = "All" /\ sel.event_name = "All" /\ sel.item_name = "All"
         [] page = "Daily Inventory" ->
               sel.event_name = "All" /\ sel.item_name = "All"

\* two frames hold the same records (a page may have sorted them)
SameRecords(a, b) == Len(a) = Len(b) /\ Range(a) = Range(b)

C10_NoDataWhenAllRemoved ==
    Passed /\ result.df # <<>> /\ result.filtered = <<>> => result.status = "no_data"

\* the records of the loaded inventory frame that the selectboxes accept
InventorySelected(df) ==
    SelectSeq(df, LAMBDA r :
        /\ r.VenueName = sel.venue_name
        /\ sel.event_name = "All" \/ r.EventName = sel.event_name
        /\ sel.item_name = "All" \/ r.ItemName = sel.item_name)

\* the records among kept that fall in the group of summary row g
InGroup(kept, g) == SelectSeq(kept, LAMBDA r : KeyOf(r, result.group_by_cols) = g.key)

\* h hundredths is the fraction 100 * quantity / stock rounded to two decimals
IsPercentage(h, quantity, stock) ==
    LET diff == h * stock - quantity * 10000
    IN 2 * (IF diff < 0 THEN -diff ELSE diff) <= stock

\* the summary rows are one per group of kept, each with the group's quantity
\* sum and, where it has stock, the percentage of the stock sold
OneRowPerDay(kept) ==
    /\ \A i \in 1..Len(kept) :
          \E j \in 1..Len(result.grouped) : result.grouped[j].key[1] = kept[i].EventDate
    /\ \A j \in 1..Len(result.grouped) :
          LET g == result.grouped[j]
          IN /\ InGroup(kept, g) # <<>>
             /\ \A k \in 1..Len(result.grouped) : result.grouped[k].key = g.key => k = j
             /\ g.Quantity_sum = SumOf(InGroup(kept, g), "Quantity")
             /\ g.Stock > 0 =>
                   /\ g.PERCENTAGE_SALE.kind = "num"
                   /\ IsPercentage(g.PERCENTAGE_SALE.hundredths, g.Quantity_sum, g.Stock)

\* C11 as stated: in the inventory report with no date range chosen, no record
\* is excluded because of its date, and the records of a venue and item yield
\* one summary row per day with that day's quantity sum and percentage sale.
C11_NoDateExclusion ==
    page = "Daily Inventory" /\ Grouped /\ Len(sel.date_filter) # 2 =>
        /\ result.date_out = result.df
        /\ OneRowPerDay(InventorySelected(result.df))

\* C11 amended: with no date range chosen the report keeps the records whose
\* event date lies in [now - 1 month, now], and the records of a venue and
\* item among them yield one summary row per day with that day's quantity sum
\* and percentage sale.
C11_OneRowPerDayOfLastMonth ==
    page = "Daily Inventory" /\ Grouped /\ Len(sel.date_filter) # 2 =>
        OneRowPerDay(InventorySelected(InLastMonth(result.df, result.now)))

\* C11 witness: no date range chosen, and two records of one venue and item
\* on two days of the last month gave two summary rows
C11_TwoDays ==
    /\ page = "Daily Inventory" /\ Grouped /\ Len(sel.date_filter) # 2
    /\ Len(result.grouped) = 2
    /\ result.grouped[1].key[1] # result.grouped[2].key[1]
    /\ Tail(result.grouped[1].key) = Tail(result.grouped[2].key)

\* the largest stock among the rows of a non-empty group
PeakStock(members) ==
    CHOOSE s \in { members[i].Stock : i \in 1..Len(members) } :
        \A i \in 1..Len(members) : members[i].Stock <= s

\* C12: in the inventory report every group (date, venue, item, optionally
\* event) whose largest stock is positive reports as percentage sale
\* 100 * (sum of the group's quantity) / (largest stock of the group), rounded
\* to two decimal places.
C12_PercentageOfPeakStock ==
    page = "Daily Inventory" /\ Grouped =>
        \A j \in 1..Len(result.grouped) :
            LET g == result.grouped[j]
                members == InGroup(result.filtered, g)
            IN PeakStock(members) > 0 =>
                 /\ g.PERCENTAGE_SALE.kind = "num"
                 /\ IsPercentage(g.PERCENTAGE_SALE.hundredths,
                                 SumOf(members, "Quantity"), PeakStock(members))

\* C12 witness: a group of two records whose first record does not hold the
\* largest stock, and whose percentage is not a whole number
C12_TwoRecordGroup ==
    /\ page = "Daily Inventory" /\ Grouped
    /\ \E j \in 1..Len(result.grouped) :
          LET members == InGroup(result.filtered, result.grouped[j])
          IN /\ Len(members) = 2
             /\ members[1].Stock < PeakStock(members)
             /\ result.grouped[j].PERCENTAGE_SALE.hundredths % 100 # 0

\* the grouping key list of the hierarchical filter page: the time bucket and
\* then the columns of the selections made (line 160)
TypeGroupingKeys == <<"YearMonth">> \o result.group_by_cols

\* C13: an aggregation is rejected with a grouping error only when its
\* grouping key list is empty; a report grouped by the time bucket alone, with
\* no categorical key selected, is accepted and ends with summary rows or with
\* the no-data condition.
C13_TimeBucketAloneAccepted ==
    /\ result.status = "no_grouping" => TypeGroupingKeys = <<>>
    /\ Passed /\ page \notin {"Daily Inventory", "DayOfWeek"}
          /\ (\A w \in {"venue_type", "pay_type", "venue_name", "event_name",
                         "item_name", "yielding"} \cap DOMAIN sel : sel[w] = {})
          /\ ("filter_option" \in DOMAIN sel => sel.filter_option = "None")
          => Grouped

\* get_dataframe returned a frame
Normalized == cache # <<>> /\ cache[1].ok

\* C14: after get_dataframe succeeds, every record it returned has a non-null
\* venue name, venue type, pay type, event name and item name, and a non-null
\* event date and transaction date.
C14_NoNullAfterNormalizer ==
    Normalized =>
        \A i \in 1..Len(cache[1].df) :
            LET r == cache[1].df[i]
            IN /\ NULL \notin {r.VenueName, r.VenueType, r.PayType, r.EventName, r.ItemName}
               /\ r.EventDate # NaT
               /\ r.TransactionDate # NaT

\* a table with a row without categories and a row without a date was
\* normalized: the first row is kept as 'Unknown', the second is dropped
C14_FilledAndDropped ==
    /\ Normalized
    /\ Len(warehouse) = 2
    /\ warehouse[1].EF_NAME = NULL /\ warehouse[1].VP_VENUENAME = NULL
    /\ NaT \in {warehouse[2].TI_CALDATE, warehouse[2].TB_TRANSDATE}
    /\ Len(cache[1].df) = 1
    /\ cache[1].df[1].EventName = "Unknown" /\ cache[1].df[1].VenueName = "Unknown"

\* the frame get_dataframe returns for the rows of an already normalized frame
Renormalized(df) == get_dataframe([i \in 1..Len(df) |-> Source(df[i])])

\* C15: get_dataframe applied to the data it returned yields that data again:
\* no row is removed or deduplicated and no field changes.
C15_NormalizerIdempotent == Normalized => Renormalized(cache[1].df) = cache[1].df

\* the pages that compute Season, Year, YearSeason or DayOfWeek from the event date
SeasonPages == {"Seasonal Analysis", "Seasonal Grouping", "DayOfWeek"}

\* C16: on the pages that compute Season, Year, YearSeason and DayOfWeek, no
\* record with a null event date (missing, or unparseable and coerced to NaT)
\* is in the frame the derived columns are computed on.
C16_NoNullDateDerived ==
    page \in SeasonPages /\ result.status \notin {"none", "failed"} =>
        \A i \in 1..Len(result.df) : result.df[i].EventDate # NaT

\* the warehouse columns a page needs: those get_dataframe cleans, those its
\* agg names, and on the Pool Yield page the two yield indicators
RequiredColumns(p) ==
    NormalizerColumns \cup AggColumns(p)
    \cup (IF p = "Pool Yield" THEN {"ADDTIER_YIELD_ALLITEMS", "TIER_TIER_ALLITEMS"} ELSE {})

\* C17: when a source column the page requires is absent from the fetched
\* rows (and there are fetched rows), the pass fails with an error shown to
\* the user ("Failed to retrieve data." or an exception) and draws no chart
\* and no table.
C17_MissingColumnFails ==
    /\ result.status # "none"
    /\ Query(page, warehouse) # <<>>
    /\ ~(RequiredColumns(page) \subseteq schema)
    => result.status \in {"failed", "exception"}

\* C18: the warehouse is queried at most once for the page's query text, and
\* once get_dataframe has returned a frame every later pass reads that frame
\* from the cache without another query.
C18_QueriedOnce ==
    [][/\ queries' <= 1
       /\ Normalized => cache' = cache /\ queries' = queries]_vars

\* a pass after the one that fetched: the user has ticked "Show Average",
\* and the warehouse was queried once
C18_LaterPassReusedCache ==
    /\ Normalized
    /\ queries = 1
    /\ "show_average" \in result.rendered
    /\ sel.show_average

\* C19: a failed pass leaves nothing behind for later passes: the cache of
\* get_dataframe never holds the result of a failed call.
C19_FailureNotRetained == cache # <<>> => cache[1].ok

\* the summary rows whose key is the grouping-key tuple of record r
RowsOf(r) ==
    {j \in 1..Len(result.grouped) : result.grouped[j].key = KeyOf(r, result.group_by_cols)}

\* C20: every summary row is the row of a grouping-key tuple that some
\* filtered record has (no row without records), and every filtered record
\* falls in exactly one summary row.
C20_OneRowPerOccurringKey ==
    Grouped =>
        /\ \A j \in 1..Len(result.grouped) : InGroup(result.filtered, result.grouped[j]) # <<>>
        /\ \A i \in 1..Len(result.filtered) : Cardinality(RowsOf(result.filtered[i])) = 1

\* C23: the transaction count of every summary row is the number of distinct
\* cart ids among the records of its group, not the number of records.
C23_CountsDistinctCarts ==
    Grouped =>
        \A j \in 1..Len(result.grouped) :
            LET g == result.grouped[j]
                members == InGroup(result.filtered, g)
            IN "TRANSACTION_COUNT" \in DOMAIN g =>
                   g.TRANSACTION_COUNT =
                       Cardinality({members[i].CartID : i \in 1..Len(members)})

\* a group of two records of the same cart, counted as one transaction
C23_SharedCart ==
    /\ Grouped
    /\ page = "Seasonal Grouping"
    /\ \E j \in 1..Len(result.grouped) :
           /\ Len(InGroup(result.filtered, result.grouped[j])) = 2
           /\ result.grouped[j].TRANSACTION_COUNT = 1

\* C26: on the day-of-week page the summary rows of one YearSeason follow
\* each other in the order Monday, Tuesday, ..., Sunday.
C26_MondayToSunday ==
    page = "DayOfWeek" /\ result.status = "tables" =>
        \A i, j \in 1..Len(result.grouped) :
            i < j /\ result.grouped[i].key[1] = result.grouped[j].key[1] =>
                IndexOf(day_order, result.grouped[i].key[2])
                    <= IndexOf(day_order, result.grouped[j].key[2])

\* a table of the day-of-week page with records on a Tuesday and a Wednesday
\* of one season, whose Monday row comes before its Friday row
C26_WeekOfOneSeason ==
    /\ page = "DayOfWeek" /\ result.status = "tables"
    /\ \E i, j, k, l \in 1..Len(result.grouped) :
           /\ i < j /\ j < k /\ k < l
           /\ result.grouped[i].key = <<<<2023, "Fall">>, "Monday">>
           /\ result.grouped[j].key = <<<<2023, "Fall">>, "Tuesday">>
           /\ result.grouped[k].key = <<<<2023, "Fall">>, "Wednesday">>
           /\ result.grouped[l].key = <<<<2023, "Fall">>, "Friday">>
           /\ result.grouped[j].size > 0 /\ result.grouped[k].size > 0

\* the season of a month: Dec-Feb, Mar-May, Jun-Aug, Sep-Nov
SeasonOfMonth(m) ==
    IF m = 12 \/ m <= 2 THEN "Winter"
    ELSE IF m <= 5 THEN "Spring"
    ELSE IF m <= 8 THEN "Summer"
    ELSE "Fall"

\* C24: get_season gives every month 1..12 its season (12, 1, 2 Winter, 3-5
\* Spring, 6-8 Summer, 9-11 Fall), and the YearSeason of every record with a
\* non-null event date is "{Year} {Season}" of that date; the summary rows of
\* the filtered records carry that label.
C24_SeasonOfEveryMonth ==
    page \in SeasonPages /\ Grouped =>
        /\ \A i \in 1..Len(result.df) :
               LET t == result.df[i].EventDate
               IN t # NaT =>
                   /\ Col(result.df[i], "YearSeason") = <<t[1], SeasonOfMonth(t[2])>>
                   /\ YearSeasonStr(Col(result.df[i], "YearSeason"))
                          = Digits(t[1]) \o <<32>> \o Chars(SeasonOfMonth(t[2]))
        /\ \A i \in 1..Len(result.filtered) :
               LET t == result.filtered[i].EventDate
               IN t # NaT =>
                   \E j \in 1..Len(result.grouped) :
                       /\ result.grouped[j].key[1] = <<t[1], SeasonOfMonth(t[2])>>
                       /\ result.grouped[j].size > 0

\* a December record summarised under "2023 Winter"
C24_DecemberIsWinter ==
    /\ page = "Seasonal Grouping" /\ result.status = "tables"
    /\ Len(result.filtered) = 1
    /\ result.filtered[1].EventDate[2] = 12
    /\ result.grouped[1].key[1] = <<2023, "Winter">>

\* at least one of the two yield indicators of r is non-null and above 0
HasYield(r) ==
    \E c \in {r.ADDTIER_YIELD_ALLITEMS, r.TIER_TIER_ALLITEMS} : c # NaN /\ c[1] > 0

\* C25: the yielding flag of a record is "yes" exactly when at least one of the
\* two yield indicators is non-null and strictly greater than 0, else "no";
\* the "Select Yielding" options drawn with no other selection are these flags.
C25_YieldingFlag ==
    page = "Pool Yield" /\ Grouped =>
        /\ \A i \in 1..Len(result.df) :
               Col(result.df[i], "yielding") = IF HasYield(result.df[i]) THEN "yes" ELSE "no"
        /\ sel.venue_name = {} /\ sel.event_name = {} /\ sel.item_name = {} =>
               Range(result.options.yielding) =
                   { IF HasYield(result.df[i]) THEN "yes" ELSE "no" : i \in 1..Len(result.df) }

\* a record whose first indicator is zero and whose second is positive, flagged "yes"
C25_SecondIndicatorOnly ==
    /\ page = "Pool Yield" /\ result.status = "tables"
    /\ Len(result.df) = 1
    /\ result.df[1].ADDTIER_YIELD_ALLITEMS = <<0>>
    /\ result.df[1].TIER_TIER_ALLITEMS = <<4>>
    /\ result.options.yielding = <<"yes">>

\* a pass that ended with the charts and tables of a non-empty df_grouped
Tabled == result.status = "tables"

\* averages were requested in the pass
Averages == "show_average" \in DOMAIN sel /\ sel.show_average

\* the sum and the mean column of the value, guest and quantity metrics
SumMetrics ==
    IF page = "Daily Inventory"
    THEN {<<"Value", "Value_avg">>, <<"Guests", "Guests_avg">>, <<"Quantity", "Quantity_avg">>}
    ELSE {<<"Value_sum", "Value_avg">>, <<"Guests_sum", "Guests_avg">>,
          <<"Quantity_sum", "Quantity_avg">>}

\* the columns of the metrics that are not sums
OtherMetrics == {"TRANSACTION_COUNT", "PERCENTAGE_SALE"}

\* table t is the grouping keys, then the sum of a metric, then its mean if
\* and only if averages were requested
SumThenMean(t, metrics) ==
    \E m \in metrics :
        t = result.group_by_cols \o <<m[1]>> \o (IF Averages THEN <<m[2]>> ELSE <<>>)

\* C21 as stated: every export table is the grouping keys (time bucket first),
\* then the metric's sum, then the metric's mean, the mean being present if and
\* only if averages were requested.
C21_EveryTableSumThenMean ==
    Tabled =>
        \A n \in 1..Len(result.tables) :
            /\ result.tables[n][1] \in {"Date", "YearMonth", "YearSeason"}
            /\ SumThenMean(result.tables[n],
                           SumMetrics \cup {<<c, c>> : c \in OtherMetrics})

\* C21: every export table of value, guests or quantity is the grouping keys
\* (time bucket first), then the sum, then the mean if and only if averages
\* were requested; the inventory quantity table carries Stock after the sum,
\* and the transaction-count and percentage-sale tables are the keys followed
\* by that one column.
C21_SumTablesSumThenMean ==
    Tabled =>
        \A n \in 1..Len(result.tables) :
            /\ result.tables[n][1] \in {"Date", "YearMonth", "YearSeason"}
            /\ \/ SumThenMean(result.tables[n], SumMetrics)
               \/ \E c \in OtherMetrics : result.tables[n] = result.group_by_cols \o <<c>>
               \/ /\ page = "Daily Inventory"
                  /\ result.tables[n] = result.group_by_cols \o <<"Quantity", "Stock">>

\* a value table with its mean column on the Transaction Type page
C21_ValueTableWithMean ==
    /\ page = "Transaction Type" /\ Tabled /\ sel.show_average
    /\ result.tables[1] = <<"YearMonth", "Venue Type", "Value_sum", "Value_avg">>

\* the metric families of a page, each as the names its column can have
MetricFamilies ==
    {{"Value", "Value_sum"}, {"Guests", "Guests_sum"}, {"Quantity", "Quantity_sum"},
     {"TRANSACTION_COUNT"}}
    \cup (IF page = "Daily Inventory" THEN {{"PERCENTAGE_SALE"}} ELSE {})

\* the export tables that carry the grouping keys and then a column of family
TablesOf(family) ==
    {n \in 1..Len(result.tables) :
        /\ Len(result.tables[n]) > Len(result.group_by_cols)
        /\ SubSeq(result.tables[n], 1, Len(result.group_by_cols)) = result.group_by_cols
        /\ result.tables[n][Len(result.group_by_cols) + 1] \in family}

\* C22: a pass that ends with a non-empty result produces one export table for
\* each of value, guests, quantity and transaction count (and percentage sale
\* on the inventory page), each with the grouping keys and that metric.
C22_TablePerMetricFamily ==
    Tabled =>
        /\ \A family \in MetricFamilies : Cardinality(TablesOf(family)) = 1
        /\ Len(result.tables) = Cardinality(MetricFamilies)

\* the traces of figure f: every series adds one trace for each of its columns
Traces(f) == Len(result.series) * Len(result.figures[f])

\* C27: whenever a pass ends with a non-empty summary result, every chart
\* drawn contains at least one series.
C27_EveryChartHasSeries ==
    Tabled => \A f \in 1..Len(result.figures) : Traces(f) >= 1

\* the item names in the summary rows
SummaryItems ==
    {Cell(result.grouped[j], result.group_by_cols, "Item Name") : j \in 1..Len(result.grouped)}

\* the summary rows of an item
RowsOfItem(item) ==
    SelectSeq(result.grouped, LAMBDA row : Cell(row, result.group_by_cols, "Item Name") = item)

\* the text a series is keyed by: the last component of its key
KeyText(series) == series.key[Len(series.key)][2]

\* C28: on Daily Inventory the chart series are keyed by item name: every item
\* name in the summary rows has a series whose points are exactly its rows,
\* and no series is keyed by anything other than an item name.
C28_SeriesKeyedByItem ==
    page = "Daily Inventory" /\ Tabled =>
        /\ \A item \in SummaryItems :
               \E n \in 1..Len(result.series) :
                   /\ KeyText(result.series[n]) = Chars(item)
                   /\ result.series[n].points = RowsOfItem(item)
        /\ \A n \in 1..Len(result.series) :
               \E item \in SummaryItems : KeyText(result.series[n]) = Chars(item)

\* the records of df that satisfy every categorical selection of the page
\* that is not empty (a selectbox on "All" selects nothing)
Selection(df) ==
    CASE page \in {"Transaction Analysis", "Seasonal Analysis"} ->
             IF sel.filter_option = "None" THEN df
             ELSE Keep(df, sel.filter_option, sel.filter_values)
      [] page = "Transaction Type" ->
             Keep(Keep(Keep(Keep(df, "Venue Type", sel.venue_type), "Pay Type", sel.pay_type),
                       "Venue Name", sel.venue_name), "Item Name", sel.item_name)
      [] page = "Pool Yield" ->
             Keep(Keep(Keep(Keep(df, "Venue Name", sel.venue_name), "Event Name", sel.event_name),
                       "Item Name", sel.item_name), "yielding", sel.yielding)
      [] page = "Seasonal Grouping" ->
             Keep(Keep(Keep(df, "Venue Name", sel.venue_name), "Event Name", sel.event_name),
                  "Item Name", sel.item_name)
      [] page \in {"DayOfWeek", "Daily Inventory"} ->
             Keep(Keep(Keep(df, "Venue Name", {sel.venue_name} \ {"All"}),
                       "Event Name", {sel.event_name} \ {"All"}),
                  "Item Name", {sel.item_name} \ {"All"})

\* the records of df in the chosen date range of the chosen date field, both
\* days included; with no range chosen all of them or, on Daily Inventory,
\* those of the last month
InRange(df) ==
    IF Len(sel.date_filter) = 2
    THEN OnDays(df, IF page = "Daily Inventory" THEN "Event Date" ELSE sel.filter_type,
                sel.date_filter[1], sel.date_filter[2])
    ELSE IF page = "Daily Inventory" THEN InLastMonth(df, result.now)
    ELSE df

\* C30: on every page the record set that is grouped is exactly the set of
\* loaded records that satisfy all active filters at once: the chosen date
\* range on the chosen date field and every non-empty categorical selection,
\* whatever the order in which the page applies them.
C30_ConjunctionOfFilters ==
    Passed => SameRecords(result.filtered, Selection(InRange(result.df)))

\* C29: on Transaction Analysis every selected filter value has an entry in
\* color_map, whatever the number of selected values, so the charting loop
\* never fails looking up a colour.
C29_EveryValueHasColour ==
    page = "Transaction Analysis" /\ "color_map" \in DOMAIN result =>
        /\ sel.filter_values \subseteq DOMAIN result.color_map
        /\ result.status # "exception"

====
